---------------------------- MODULE Spec2Model ----------------------------
(***************************************************************************)
(* Model of the credential subsystem of src/main.py: the signup and login  *)
(* handlers, the password hashing helper, and the "user" collection they   *)
(* read and write.  A handler is split into steps at its store calls       *)
(* (find_one, create_document, update_one), so that two requests served by *)
(* different workers may interleave between store calls.                   *)
(*                                                                         *)
(* Modelling conventions                                                   *)
(*  - a Python str (email, password) is a sequence of characters, each a   *)
(*    one-character string; a non-ASCII or control character is written    *)
(*    by its code point, "U+03A3"; the empty str is <<>>;                  *)
(*  - Python None is the value None below; None and <<>> are falsy;        *)
(*  - a call that may raise yields Return(v) or Raise(e); an exception     *)
(*    that leaves a handler unhandled is answered with 500 "Internal       *)
(*    Server Error";                                                       *)
(*  - the secrets module is a source of nonces: the n-th draw is a value   *)
(*    labelled n, hence never equal to an earlier draw (the usual symbolic *)
(*    model of a CSPRNG with 128/256 bits of output);                      *)
(*  - PBKDF2-HMAC-SHA256 is a symbolic one-way function of the HMAC key    *)
(*    block and the salt: the password bytes are first made into the key   *)
(*    block as HMAC does (replaced by their SHA-256 digest, computed by    *)
(*    sha256 below, when longer than the block; then zero-padded to the    *)
(*    block size), so passwords with the same key block have the same      *)
(*    digest.                                                              *)
(***************************************************************************)
EXTENDS Naturals, Sequences, FiniteSets

\* ------------------------------------------------------------------------
\* Bounds and input domains
\* ------------------------------------------------------------------------

\* Number of requests served in one behaviour.
MaxRequests == 3

\* Workers of the ASGI server's thread pool serving sync handlers.
Workers == {1, 2}

Names == {"A", "B"}

NUL == "U+0000"

CapitalEAcute == "U+00C9"

SmallEAcute == "U+00E9"

CapitalIDotAbove == "U+0130"

CombiningDotAbove == "U+0307"

CapitalSigma == "U+03A3"

SmallSigma == "U+03C3"

SmallFinalSigma == "U+03C2"

\* A surrogate code point, which UTF-8 cannot encode.
LoneSurrogate == "U+D800"

Password_empty == <<>>

Password_pw1 == <<"p", "w", "1">>

Password_pw1_nul == <<"p", "w", "1", NUL>>

Password_surrogate == <<LoneSurrogate>>

\* Passwords of the requests that interleave.
Passwords == {Password_empty, Password_pw1}

\* Passwords of the requests that run one after another.
PasswordsWide ==
    {Password_empty, Password_pw1, Password_pw1_nul, Password_surrogate}

Email_x == <<"x", "@", "y", ".", "c", "o", "m">>

Email_X == <<"X", "@", "Y", ".", "c", "o", "m">>

Email_n == <<"n", "@", "y", ".", "c", "o", "m">>

Email_a_sigma == <<"a", SmallSigma, "@", "y", ".", "c", "o", "m">>

Email_A_SIGMA == <<"A", CapitalSigma, "@", "y", ".", "c", "o", "m">>

\* Well-formed addresses (EmailStr has validated the shape, lines 51 and 55)
\* of the requests that interleave.
Emails == {Email_x, Email_X, Email_n}

\* Well-formed addresses of the requests that run one after another: also
\* two spellings of an address with an internationalised local part.
EmailsWide == {Email_x, Email_X, Email_a_sigma, Email_A_SIGMA}

\* ------------------------------------------------------------------------
\* Python values
\* ------------------------------------------------------------------------

None == <<"None">>

\* Truthiness of an Optional[str]: None and "" are falsy.
Truthy(v) == v # None /\ v # <<>>

\* What find_one returns when no document matches (Python None).
NoDoc == [_id |-> 0]

\* Truthiness of Optional[dict] as returned by find_one.
DocTruthy(d) == d._id # 0

UpperLetters == <<"A","B","C","D","E","F","G","H","I","J","K","L","M",
                  "N","O","P","Q","R","S","T","U","V","W","X","Y","Z">>

LowerLetters == <<"a","b","c","d","e","f","g","h","i","j","k","l","m",
                  "n","o","p","q","r","s","t","u","v","w","x","y","z">>

Digits == <<"0","1","2","3","4","5","6","7","8","9">>

\* Characters with the Unicode property Cased (those of the alphabet used).
Cased(c) ==
    \/ \E i \in DOMAIN UpperLetters : UpperLetters[i] = c \/ LowerLetters[i] = c
    \/ c \in {CapitalEAcute, SmallEAcute, CapitalIDotAbove,
              CapitalSigma, SmallSigma, SmallFinalSigma}

\* Characters with the Unicode property Case_Ignorable (those used).
CaseIgnorable(c) == c \in {".", ":", "^", CombiningDotAbove}

\* The lower-case letter of every ASCII upper-case letter.
AsciiLower ==
    [c \in {UpperLetters[i] : i \in DOMAIN UpperLetters} |->
        LowerLetters[CHOOSE i \in DOMAIN UpperLetters : UpperLetters[i] = c]]

\* str.lower() of one character other than capital sigma: its lower-case
\* mapping, a sequence of one or two characters.
lower_char(c) ==
    IF c \in DOMAIN AsciiLower THEN <<AsciiLower[c]>>
    ELSE IF c = CapitalEAcute THEN <<SmallEAcute>>
    ELSE IF c = CapitalIDotAbove THEN <<"i", CombiningDotAbove>>
    ELSE <<c>>

\* str.lower(): whether the capital sigma at position k of s is final: a
\* cased character precedes it and none follows it, case-ignorable
\* characters being skipped on both sides.
final_sigma(s, k) ==
    /\ \E j \in 1 .. (k - 1) :
          /\ Cased(s[j])
          /\ \A m \in (j + 1) .. (k - 1) : CaseIgnorable(s[m])
    /\ ~ \E j \in (k + 1) .. Len(s) :
          /\ Cased(s[j])
          /\ \A m \in (k + 1) .. (j - 1) : CaseIgnorable(s[m])

\* str.lower(): the characters that replace the one at position k of s.
lower_at(s, k) ==
    IF s[k] = CapitalSigma
    THEN IF final_sigma(s, k) THEN <<SmallFinalSigma>> ELSE <<SmallSigma>>
    ELSE lower_char(s[k])

RECURSIVE lower_upto(_, _)
\* str.lower(): the lower-cased form of the first k characters of s.
lower_upto(s, k) ==
    IF k = 0 THEN <<>> ELSE lower_upto(s, k - 1) \o lower_at(s, k)

\* str.lower()
lower(s) == lower_upto(s, Len(s))

\* The code points of the characters used other than ASCII letters and
\* digits.
CodePoints ==
    {<<NUL, 0>>, <<".", 46>>, <<":", 58>>, <<"@", 64>>, <<"^", 94>>,
     <<CapitalEAcute, 201>>, <<SmallEAcute, 233>>, <<CapitalIDotAbove, 304>>,
     <<CombiningDotAbove, 775>>, <<CapitalSigma, 931>>,
     <<SmallFinalSigma, 962>>, <<SmallSigma, 963>>,
     <<LoneSurrogate, 55296>>}

\* ord(c), for every character c used: its code point.
OrdTable ==
    [c \in {Digits[i] : i \in DOMAIN Digits}
            \cup {UpperLetters[i] : i \in DOMAIN UpperLetters}
            \cup {LowerLetters[i] : i \in DOMAIN LowerLetters}
            \cup {e[1] : e \in CodePoints} |->
        IF \E i \in DOMAIN Digits : Digits[i] = c
        THEN 47 + (CHOOSE i \in DOMAIN Digits : Digits[i] = c)
        ELSE IF \E i \in DOMAIN UpperLetters : UpperLetters[i] = c
        THEN 64 + (CHOOSE i \in DOMAIN UpperLetters : UpperLetters[i] = c)
        ELSE IF \E i \in DOMAIN LowerLetters : LowerLetters[i] = c
        THEN 96 + (CHOOSE i \in DOMAIN LowerLetters : LowerLetters[i] = c)
        ELSE (CHOOSE e \in CodePoints : e[1] = c)[2]]

\* ord(c)
ord(c) == OrdTable[c]

\* The outcome of a call: it returns the value v, or raises the exception e.
Return(v) == [returns |-> v]

Raise(e) == [raises |-> e]

Raises(r) == "raises" \in DOMAIN r

\* The UTF-8 encoding of the code point n < 65536: one to three bytes;
\* a surrogate code point has none.
utf8(n) ==
    IF n < 128 THEN Return(<<n>>)
    ELSE IF n < 2048 THEN Return(<<192 + (n \div 64), 128 + (n % 64)>>)
    ELSE IF n \in 55296 .. 57343 THEN Raise("UnicodeEncodeError")
    ELSE Return(<<224 + (n \div 4096), 128 + ((n \div 64) % 64),
                  128 + (n % 64)>>)

RECURSIVE encode_upto(_, _)
\* The bytes of the first k characters of s, each of them encodable.
encode_upto(s, k) ==
    IF k = 0 THEN <<>>
    ELSE encode_upto(s, k - 1) \o utf8(ord(s[k])).returns

\* str.encode() (UTF-8): returns the bytes of the str s, or raises
\* UnicodeEncodeError when a character of s has no encoding.
encode(s) ==
    IF \E k \in DOMAIN s : Raises(utf8(ord(s[k])))
    THEN Raise("UnicodeEncodeError")
    ELSE Return(encode_upto(s, Len(s)))

\* ------------------------------------------------------------------------
\* SHA-256, which HMAC applies to a key longer than its block
\* ------------------------------------------------------------------------

\* A 32-bit word is the pair <<hi, lo>> of its 16-bit halves.

RECURSIVE xor16(_, _)
\* Bitwise exclusive or of two 16-bit numbers.
xor16(a, b) ==
    IF a = 0 THEN b
    ELSE IF b = 0 THEN a
    ELSE 2 * xor16(a \div 2, b \div 2) + ((a + b) % 2)

RECURSIVE and16(_, _)
\* Bitwise and of two 16-bit numbers.
and16(a, b) ==
    IF a = 0 \/ b = 0 THEN 0
    ELSE 2 * and16(a \div 2, b \div 2) + (a % 2) * (b % 2)

xor32(x, y) == <<xor16(x[1], y[1]), xor16(x[2], y[2])>>

and32(x, y) == <<and16(x[1], y[1]), and16(x[2], y[2])>>

not32(x) == <<65535 - x[1], 65535 - x[2]>>

\* Addition modulo 2^32.
add32(x, y) ==
    LET lo == x[2] + y[2]
    IN  <<(x[1] + y[1] + (lo \div 65536)) % 65536, lo % 65536>>

\* Rotation to the right by n < 16 bits.
rotr_below16(x, n) ==
    LET p == 2 ^ n
        q == 2 ^ (16 - n)
    IN  <<(x[1] \div p) + (x[2] % p) * q, (x[2] \div p) + (x[1] % p) * q>>

\* Rotation to the right by n < 32 bits.
rotr(x, n) ==
    IF n >= 16 THEN rotr_below16(<<x[2], x[1]>>, n - 16)
    ELSE rotr_below16(x, n)

\* Shift to the right by n < 16 bits.
shr(x, n) ==
    LET p == 2 ^ n
        q == 2 ^ (16 - n)
    IN  <<x[1] \div p, (x[2] \div p) + (x[1] % p) * q>>

Ch(x, y, z) == xor32(and32(x, y), and32(not32(x), z))

Maj(x, y, z) == xor32(xor32(and32(x, y), and32(x, z)), and32(y, z))

BigSigma0(x) == xor32(xor32(rotr(x, 2), rotr(x, 13)), rotr(x, 22))

BigSigma1(x) == xor32(xor32(rotr(x, 6), rotr(x, 11)), rotr(x, 25))

LittleSigma0(x) == xor32(xor32(rotr(x, 7), rotr(x, 18)), shr(x, 3))

LittleSigma1(x) == xor32(xor32(rotr(x, 17), rotr(x, 19)), shr(x, 10))

\* The round constants of SHA-256.
K256 ==
    <<
      <<17034, 12184>>, <<28983, 17553>>, <<46528, 64463>>, <<59829, 56229>>,
      <<14678, 49755>>, <<23025, 4593>>, <<37439, 33444>>, <<43804, 24277>>,
      <<55303, 43672>>, <<4739, 23297>>, <<9265, 34238>>, <<21772, 32195>>,
      <<29374, 23924>>, <<32990, 45566>>, <<39900, 1703>>, <<49563, 61812>>,
      <<58523, 27073>>, <<61374, 18310>>, <<4033, 40390>>, <<9228, 41420>>,
      <<11753, 11375>>, <<19060, 33962>>, <<23728, 43484>>, <<30457, 35034>>,
      <<38974, 20818>>, <<43057, 50797>>, <<45059, 10184>>, <<48985, 32711>>,
      <<50912, 3059>>, <<54695, 37191>>, <<1738, 25425>>, <<5161, 10599>>,
      <<10167, 2693>>, <<11803, 8504>>, <<19756, 28156>>, <<21304, 3347>>,
      <<25866, 29524>>, <<30314, 2747>>, <<33218, 51502>>, <<37490, 11397>>,
      <<41663, 59553>>, <<43034, 26187>>, <<49739, 35696>>, <<51052, 20899>>,
      <<53650, 59417>>, <<54937, 1572>>, <<62478, 13701>>, <<4202, 41072>>,
      <<6564, 49430>>, <<7735, 27656>>, <<10056, 30540>>, <<13488, 48309>>,
      <<14620, 3251>>, <<20184, 43594>>, <<23452, 51791>>, <<26670, 28659>>,
      <<29839, 33518>>, <<30885, 25455>>, <<33992, 30740>>, <<36039, 520>>,
      <<37054, 65530>>, <<42064, 27883>>, <<48889, 41975>>, <<50801, 30962>>
    >>

\* The initial hash value of SHA-256.
H256 ==
    <<
      <<27145, 58983>>, <<47975, 44677>>, <<15470, 62322>>, <<42319, 62778>>,
      <<20750, 21119>>, <<39685, 26764>>, <<8067, 55723>>, <<23520, 52505>>
    >>

\* The message m (bytes) padded to a multiple of 64 bytes: the byte 128,
\* zero bytes, and the length of m in bits as 8 bytes.
sha256_pad(m) ==
    LET n == Len(m)
        z == (119 - (n % 64)) % 64
        bits == 8 * n
    IN  m \o <<128>> \o [i \in 1 .. z |-> 0]
          \o <<0, 0, 0, 0, (bits \div 16777216) % 256, (bits \div 65536) % 256,
               (bits \div 256) % 256, bits % 256>>

RECURSIVE sha256_words(_, _, _)
\* The first t words of the j-th block of the padded message p.
sha256_words(p, j, t) ==
    IF t = 0 THEN <<>>
    ELSE LET o == 64 * (j - 1) + 4 * (t - 1)
         IN  Append(sha256_words(p, j, t - 1),
                    <<p[o + 1] * 256 + p[o + 2], p[o + 3] * 256 + p[o + 4]>>)

\* The 32-bit words.
Word == (0 .. 65535) \X (0 .. 65535)

\* One step of the message schedule: the words W and the next word.
sha256_extend[W \in Seq(Word)] ==
    LET t == Len(W) + 1
    IN  Append(W, add32(add32(LittleSigma1(W[t - 2]), W[t - 7]),
                        add32(LittleSigma0(W[t - 15]), W[t - 16])))

\* n steps of the message schedule, the first half of them before the
\* second half.
sha256_extend_by[W \in Seq(Word), n \in 1 .. 64] ==
    IF n = 1 THEN sha256_extend[W]
    ELSE sha256_extend_by[sha256_extend_by[W, n \div 2], n - (n \div 2)]

\* The message schedule: W, the 16 words of a block, extended to 64 words.
sha256_schedule(W) == sha256_extend_by[W, 48]

\* One round of the compression function on the working variables s, with
\* round constant k and schedule word w.
sha256_round[s \in Seq(Word), k \in Word, w \in Word] ==
    LET T1 == add32(add32(add32(add32(s[8], BigSigma1(s[5])),
                                Ch(s[5], s[6], s[7])), k), w)
        T2 == add32(BigSigma0(s[1]), Maj(s[1], s[2], s[3]))
    IN  <<add32(T1, T2), s[1], s[2], s[3], add32(s[4], T1), s[5], s[6], s[7]>>

\* Rounds lo .. hi of the compression function on the working variables s,
\* the first half of them before the second half.
sha256_rounds[s \in Seq(Word), W \in Seq(Word), lo \in 1 .. 64, hi \in 1 .. 64] ==
    IF lo = hi THEN sha256_round[s, K256[lo], W[lo]]
    ELSE LET mid == (lo + hi) \div 2
         IN  sha256_rounds[sha256_rounds[s, W, lo, mid], W, mid + 1, hi]

\* The compression function: the hash value after the block of schedule W.
sha256_compress(H, W) ==
    LET s == sha256_rounds[H, W, 1, 64]
    IN  <<add32(H[1], s[1]), add32(H[2], s[2]), add32(H[3], s[3]),
          add32(H[4], s[4]), add32(H[5], s[5]), add32(H[6], s[6]),
          add32(H[7], s[7]), add32(H[8], s[8])>>

\* The hash value after blocks j, j + 1, ... of the padded message p, from
\* the hash value H.
sha256_blocks[H \in Seq(Word), p \in Seq(0 .. 255), j \in Nat] ==
    IF 64 * (j - 1) >= Len(p) THEN H
    ELSE sha256_blocks[
             sha256_compress(H, sha256_schedule(sha256_words(p, j, 16))),
             p, j + 1]

RECURSIVE sha256_bytes(_, _)
\* The first k words of the hash value H as bytes.
sha256_bytes(H, k) ==
    IF k = 0 THEN <<>>
    ELSE sha256_bytes(H, k - 1)
           \o <<H[k][1] \div 256, H[k][1] % 256, H[k][2] \div 256, H[k][2] % 256>>

\* hashlib.sha256(m).digest(): the 32 bytes of the digest of the bytes m.
sha256(m) == sha256_bytes(sha256_blocks[H256, sha256_pad(m), 1], 8)

\* ------------------------------------------------------------------------
\* PBKDF2-HMAC-SHA256
\* ------------------------------------------------------------------------

\* Block size in bytes of HMAC-SHA256.
HmacBlockSize == 64

\* The key block of HMAC: a key longer than the block is replaced by its
\* SHA-256 digest, and the key is padded with zero bytes to the block size.
\* The padded block is written without its trailing zero bytes: two keys
\* have the same block exactly when these are equal.
hmac_key_block(key) ==
    LET k == IF Len(key) > HmacBlockSize THEN sha256(key) ELSE key
        nonzero == {i \in DOMAIN k : k[i] # 0}
        n == IF nonzero = {} THEN 0
             ELSE CHOOSE i \in nonzero : \A l \in nonzero : l <= i
    IN  SubSeq(k, 1, n)

\* secrets.token_hex(16): the n-th draw from the CSPRNG, as a salt.
token_hex(n) == <<"hex", n>>

\* secrets.token_urlsafe(32): the n-th draw from the CSPRNG, as a token.
token_urlsafe(n) == <<"urlsafe", n>>

\* hashlib.pbkdf2_hmac("sha256", password, salt, 100_000).hex(), password
\* being bytes; the salt is a nonce (or whatever the record holds) and its
\* encoding is one-to-one, so it enters the term as it is.
pbkdf2_hmac(password, salt) ==
    <<"pbkdf2_hmac_sha256", hmac_key_block(password), salt>>

\* A mutation of _hash_password: the supplied salt is ignored and a fresh
\* one is always drawn.
hash_password_fresh_salt(password, salt, fresh) ==
    LET key == encode(password)
    IN  IF Raises(key) THEN key
        ELSE Return(<<pbkdf2_hmac(key.returns, fresh), fresh>>)

\* _hash_password(password, salt): returns <<hashed, salt>>, or raises what
\* password.encode() raises; `fresh` is the value secrets.token_hex(16)
\* yields if it is called.
_hash_password(password, salt, fresh) ==
    LET s == IF Truthy(salt) THEN salt ELSE fresh
        key == encode(password)
    IN  IF Raises(key) THEN key
        ELSE Return(<<pbkdf2_hmac(key.returns, s), s>>)

\* HTTPException(status_code, detail)
HTTPException(status_code, detail) ==
    [status |-> status_code, detail |-> detail]

\* The response to a request whose handler raises an exception other than
\* HTTPException.
InternalServerError == [status |-> 500, body |-> "Internal Server Error"]

\* AuthResponse(token, name, email), sent with status 200
AuthResponse(token, name, email) ==
    [status |-> 200, token |-> token, name |-> name, email |-> email]

\* str(inserted_id) as returned by create_document
str_id(id) == <<"str", id>>

\* bson.ObjectId(s)
ObjectId(s) == s[2]

\* ------------------------------------------------------------------------
\* The document store (collection "user")
\* ------------------------------------------------------------------------

\* A mutation of find_one: the query never matches (wrong field name).
find_one_never(coll, email) == NoDoc

\* db["user"].find_one({"email": email}): the first matching document.
find_one(coll, email) ==
    IF \E i \in DOMAIN coll : coll[i].email = email
    THEN coll[CHOOSE i \in DOMAIN coll :
                 /\ coll[i].email = email
                 /\ \A j \in DOMAIN coll : coll[j].email = email => i <= j]
    ELSE NoDoc

\* A mutation of update_one_push: $set instead of $push.
update_one_set(coll, id, token) ==
    [i \in DOMAIN coll |->
        IF coll[i]._id = id THEN [coll[i] EXCEPT !.tokens = <<token>>]
        ELSE coll[i]]

\* A mutation of update_one_push: the document is replaced (replace_one).
update_one_replace(coll, id, token) ==
    [i \in DOMAIN coll |->
        IF coll[i]._id = id
        THEN [coll[i] EXCEPT !.tokens = Append(@, token),
                             !.password_hash = None, !.salt = None]
        ELSE coll[i]]

\* db["user"].update_one({"_id": id}, {"$push": {"tokens": token}})
update_one_push(coll, id, token) ==
    [i \in DOMAIN coll |->
        IF coll[i]._id = id THEN [coll[i] EXCEPT !.tokens = Append(@, token)]
        ELSE coll[i]]

\* create_document("user", doc): inserts doc under a new _id; the new
\* collection and str(inserted_id).
create_document(coll, doc) ==
    LET id == Len(coll) + 1
    IN  [coll |-> Append(coll, [_id |-> id, name |-> doc.name,
                                email |-> doc.email,
                                password_hash |-> doc.password_hash,
                                salt |-> doc.salt,
                                is_active |-> doc.is_active,
                                tokens |-> doc.tokens]),
         id |-> str_id(id)]

\* UserSchema(name, email, password_hash, salt, is_active, tokens)
UserSchema(name, email, password_hash, salt, is_active, tokens) ==
    [name |-> name, email |-> email, password_hash |-> password_hash,
     salt |-> salt, is_active |-> is_active, tokens |-> tokens]

\* A document of the collection that was not written by signup: it has no
\* password_hash and no salt (login guards against it at line 105).
LegacyUser ==
    [_id |-> 1, name |-> "L", email |-> Email_n, password_hash |-> None,
     salt |-> None, is_active |-> TRUE, tokens |-> <<>>]

\* ------------------------------------------------------------------------
\* State
\* ------------------------------------------------------------------------

VARIABLES
    db,          \* the module-level store handle: "None" or "configured"
    users,       \* the "user" collection, in insertion order
    pc,          \* per worker: where its handler stands
    payload,     \* per worker: the request being served
    local,       \* per worker: the handler's local variables
    entropy,     \* number of draws made from the secrets module
    started,     \* number of requests received so far
    last,        \* the request completed by the last step and its response
    registered,  \* history, per document: the signup payload that made it
    issued,      \* history, per document: tokens returned in 200 responses
    storeCalls   \* history: number of store calls made so far

vars == <<db, users, pc, payload, local, entropy, started, last,
          registered, issued, storeCalls>>

NoPayload == [kind |-> "none"]

NoLocal == [none |-> TRUE]

NoLast == [worker |-> 0, payload |-> NoPayload, resp |-> [status |-> 0]]

NoReg == [kind |-> "none"]

SignupRequest == [kind : {"signup"}, name : Names, email : Emails,
                  password : Passwords]

LoginRequest == [kind : {"login"}, email : Emails, password : Passwords]

SignupRequestWide == [kind : {"signup"}, name : Names, email : EmailsWide,
                      password : PasswordsWide]

LoginRequestWide == [kind : {"login"}, email : EmailsWide,
                     password : PasswordsWide]

Init ==
    /\ db \in {"None", "configured"}
    /\ users \in IF db = "None" THEN {<<>>} ELSE {<<>>, <<LegacyUser>>}
    /\ pc = [w \in Workers |-> "idle"]
    /\ payload = [w \in Workers |-> NoPayload]
    /\ local = [w \in Workers |-> NoLocal]
    /\ entropy = 0
    /\ started = 0
    /\ last = NoLast
    /\ registered = [i \in DOMAIN users |-> NoReg]
    /\ issued = [i \in DOMAIN users |-> <<>>]
    /\ storeCalls = 0

\* ------------------------------------------------------------------------
\* Handlers
\* ------------------------------------------------------------------------

\* A mutation of DbMissing: the guard is dropped.
DbMissing_unchecked == FALSE

\* `db is None`
DbMissing == db = "None"

\* A request is taken by the lowest-numbered idle worker (the workers of the
\* pool are interchangeable).
Accepts(w) ==
    /\ pc[w] = "idle"
    /\ \A v \in Workers : v < w => pc[v] # "idle"
    /\ started < MaxRequests

\* The handler of worker w, serving request p, raises or returns r: the
\* request is complete and r is the response sent.
Respond(w, p, r) ==
    /\ last' = [worker |-> w, payload |-> p, resp |-> r]
    /\ pc' = [pc EXCEPT ![w] = "idle"]
    /\ payload' = [payload EXCEPT ![w] = NoPayload]
    /\ local' = [local EXCEPT ![w] = NoLocal]

\* signup, lines 73-87: guard, duplicate check, hashing.  The salt is
\* drawn (line 27) before the password is encoded (line 29).
\* str(payload.email).lower() of lines 76 and 82 is the one value email.
SignupFind(w, p) ==
    /\ Accepts(w)
    /\  /\ started' = started + 1
        /\ IF DbMissing
           THEN /\ Respond(w, p, HTTPException(500, "Database not configured"))
                /\ UNCHANGED <<entropy, storeCalls>>
           ELSE LET email == lower(p.email)
                    existing == find_one(users, email)
                IN  /\ storeCalls' = storeCalls + 1
                    /\ IF DocTruthy(existing)
                       THEN /\ Respond(w, p, HTTPException(400,
                                              "Email already registered"))
                            /\ UNCHANGED entropy
                       ELSE \E hs \in {_hash_password(p.password, None,
                                                      token_hex(entropy + 1))} :
                            LET new_user == UserSchema(p.name, email,
                                                       hs.returns[1],
                                                       hs.returns[2],
                                                       TRUE, <<>>)
                            IN  /\ entropy' = entropy + 1
                                /\ IF Raises(hs)
                                   THEN Respond(w, p, InternalServerError)
                                   ELSE /\ payload' = [payload EXCEPT ![w] = p]
                                        /\ local' = [local EXCEPT ![w] =
                                                [new_user |-> new_user]]
                                        /\ pc' = [pc EXCEPT ![w] =
                                                     "signup_insert"]
                                        /\ last' = NoLast
    /\ UNCHANGED <<db, users, registered, issued>>

\* signup, lines 88-90: insert the document, draw the token.
SignupInsert(w) ==
    /\ pc[w] = "signup_insert"
    /\ LET r == create_document(users, local[w].new_user)
           token == token_urlsafe(entropy + 1)
       IN  /\ users' = r.coll
           /\ entropy' = entropy + 1
           /\ local' = [local EXCEPT ![w] =
                           [new_user |-> local[w].new_user,
                            user_id |-> r.id, token |-> token]]
    /\ registered' = Append(registered, payload[w])
    /\ issued' = Append(issued, <<>>)
    /\ storeCalls' = storeCalls + 1
    /\ pc' = [pc EXCEPT ![w] = "signup_push"]
    /\ last' = NoLast
    /\ UNCHANGED <<db, payload, started>>

\* A mutation of SignupPush: the token is attached to the document found
\* by email instead of by _id.
SignupPush_by_email(w) ==
    /\ pc[w] = "signup_push"
    /\ LET u == find_one(users, local[w].new_user.email)
       IN  /\ users' = update_one_push(users, u._id, local[w].token)
           /\ issued' = [issued EXCEPT ![ObjectId(local[w].user_id)] =
                            Append(@, local[w].token)]
    /\ storeCalls' = storeCalls + 1
    /\ Respond(w, payload[w],
               AuthResponse(local[w].token, local[w].new_user.name,
                            local[w].new_user.email))
    /\ UNCHANGED <<db, entropy, started, registered>>

\* signup, lines 92-93: attach the token, return.
SignupPush(w) ==
    /\ pc[w] = "signup_push"
    /\ users' = update_one_push(users, ObjectId(local[w].user_id),
                                local[w].token)
    /\ issued' = [issued EXCEPT ![ObjectId(local[w].user_id)] =
                     Append(@, local[w].token)]
    /\ storeCalls' = storeCalls + 1
    /\ Respond(w, payload[w],
               AuthResponse(local[w].token, local[w].new_user.name,
                            local[w].new_user.email))
    /\ UNCHANGED <<db, entropy, started, registered>>

\* login, line 102
LoginNoUser == HTTPException(401, "Invalid credentials")

\* login, line 106
LoginNoHash == HTTPException(401, "Invalid credentials")

\* login, line 109
LoginMismatch == HTTPException(401, "Invalid credentials")

\* login, lines 98-110: guard, lookup, verification, token draw.
LoginFind(w, p) ==
    /\ Accepts(w)
    /\  /\ started' = started + 1
        /\ IF DbMissing
           THEN /\ Respond(w, p, HTTPException(500, "Database not configured"))
                /\ UNCHANGED <<entropy, storeCalls>>
           ELSE LET user == find_one(users, lower(p.email))
                IN  /\ storeCalls' = storeCalls + 1
                    /\ IF ~DocTruthy(user)
                       THEN /\ Respond(w, p, LoginNoUser)
                            /\ UNCHANGED entropy
                       ELSE IF ~Truthy(user.password_hash) \/ ~Truthy(user.salt)
                       THEN /\ Respond(w, p, LoginNoHash)
                            /\ UNCHANGED entropy
                       ELSE \E hs \in {_hash_password(p.password, user.salt,
                                                      token_hex(entropy + 1))} :
                            IF Raises(hs)
                            THEN /\ Respond(w, p, InternalServerError)
                                 /\ UNCHANGED entropy
                            ELSE IF hs.returns[1] # user.password_hash
                            THEN /\ Respond(w, p, LoginMismatch)
                                 /\ UNCHANGED entropy
                            ELSE /\ entropy' = entropy + 1
                                 /\ payload' = [payload EXCEPT ![w] = p]
                                 /\ local' = [local EXCEPT ![w] =
                                       [user |-> user,
                                        token |-> token_urlsafe(entropy + 1)]]
                                 /\ pc' = [pc EXCEPT ![w] = "login_push"]
                                 /\ last' = NoLast
    /\ UNCHANGED <<db, users, registered, issued>>

\* A mutation of LoginPush: the token list read at lookup time is written
\* back with the new token appended (read-modify-write).
LoginPush_write_back(w) ==
    /\ pc[w] = "login_push"
    /\ users' = [i \in DOMAIN users |->
                    IF users[i]._id = local[w].user._id
                    THEN [users[i] EXCEPT !.tokens =
                             Append(local[w].user.tokens, local[w].token)]
                    ELSE users[i]]
    /\ issued' = [issued EXCEPT ![local[w].user._id] =
                     Append(@, local[w].token)]
    /\ storeCalls' = storeCalls + 1
    /\ Respond(w, payload[w],
               AuthResponse(local[w].token, local[w].user.name,
                            local[w].user.email))
    /\ UNCHANGED <<db, entropy, started, registered>>

\* login, lines 111-112: attach the token, return.
LoginPush(w) ==
    /\ pc[w] = "login_push"
    /\ users' = update_one_push(users, local[w].user._id, local[w].token)
    /\ issued' = [issued EXCEPT ![local[w].user._id] =
                     Append(@, local[w].token)]
    /\ storeCalls' = storeCalls + 1
    /\ Respond(w, payload[w],
               AuthResponse(local[w].token, local[w].user.name,
                            local[w].user.email))
    /\ UNCHANGED <<db, entropy, started, registered>>

\* Requests interleave at store-call granularity.
Next ==
    \E w \in Workers :
        \/ \E p \in SignupRequest : SignupFind(w, p)
        \/ SignupInsert(w)
        \/ SignupPush(w)
        \/ \E p \in LoginRequest : LoginFind(w, p)
        \/ LoginPush(w)

Spec == Init /\ [][Next]_vars

\* Requests run one after another: a worker steps only while the others
\* are idle.
SeqNext ==
    \E w \in Workers :
        /\ \A v \in Workers \ {w} : pc[v] = "idle"
        /\ \/ \E p \in SignupRequestWide : SignupFind(w, p)
           \/ SignupInsert(w)
           \/ SignupPush(w)
           \/ \E p \in LoginRequestWide : LoginFind(w, p)
           \/ LoginPush(w)

SpecSeq == Init /\ [][SeqNext]_vars

\* ------------------------------------------------------------------------
\* Vocabulary of the properties
\* ------------------------------------------------------------------------

IsUpper(c) ==
    \/ \E k \in DOMAIN UpperLetters : UpperLetters[k] = c
    \/ c \in {CapitalEAcute, CapitalIDotAbove, CapitalSigma}

\* The pairs of an upper-case letter and a lower-case form of it, beyond
\* the ASCII letters.
CasePairs ==
    {<<CapitalEAcute, SmallEAcute>>, <<CapitalSigma, SmallSigma>>,
     <<CapitalSigma, SmallFinalSigma>>}

\* c and d are the same character up to letter case (stated from the
\* tables of letters, not from lower).
SameCharModuloCase(c, d) ==
    \/ c = d
    \/ \E k \in DOMAIN UpperLetters :
          \/ c = UpperLetters[k] /\ d = LowerLetters[k]
          \/ c = LowerLetters[k] /\ d = UpperLetters[k]
    \/ <<c, d>> \in CasePairs
    \/ <<d, c>> \in CasePairs

\* a and b are spellings of one address that differ at most in letter case.
SameModuloCase(a, b) ==
    /\ Len(a) = Len(b)
    /\ \A k \in DOMAIN a : SameCharModuloCase(a[k], b[k])

IsLowerCase(e) == \A k \in DOMAIN e : ~IsUpper(e[k])

\* The documents stored under the lower-cased form of email e.
Holders(e) == LET n == lower(e) IN {i \in DOMAIN users : users[i].email = n}

\* The document a lookup by e finds: the first one in insertion order.
FirstHolder(e) == CHOOSE i \in Holders(e) : \A j \in Holders(e) : i <= j

IsPrefix(s, t) ==
    /\ Len(s) <= Len(t)
    /\ \A k \in DOMAIN s : s[k] = t[k]

ToSet(s) == {s[k] : k \in DOMAIN s}

NoDuplicates(s) == \A k, l \in DOMAIN s : s[k] = s[l] => k = l

AllIdle == \A w \in Workers : pc[w] = "idle"

Configured == db = "configured"

\* This step is worker w receiving a request.
Begins(w) ==
    /\ pc[w] = "idle"
    /\ started' = started + 1
    /\ pc'[w] # "idle" \/ last'.worker = w

\* The request worker w receives in this step.
Received(w) == IF pc'[w] # "idle" THEN payload'[w] ELSE last'.payload

\* This step completes the request of worker w.
Completes(w) == pc[w] # "idle" /\ last'.worker = w

InvalidCredentials == [status |-> 401, detail |-> "Invalid credentials"]

DuplicateEmail == [status |-> 400, detail |-> "Email already registered"]

StoreUnavailable == [status |-> 500, detail |-> "Database not configured"]

\* ------------------------------------------------------------------------
\* C1
\* ------------------------------------------------------------------------

\* A login with payload p is in one of the three failure cases: no document
\* under the normalized email, a document without password_hash or salt, or
\* a supplied password from which the stored hash is not derived.
LoginFailureCase(p) ==
    LET h == Holders(p.email)
    IN  \/ h = {}
        \/ /\ h # {}
           /\ LET u == users[CHOOSE i \in h : \A j \in h : i <= j]
              IN  \/ u.password_hash = None
                  \/ u.salt = None
                  \/ /\ u.password_hash # None
                     /\ u.salt # None
                     /\ LET key == encode(p.password)
                        IN  \/ Raises(key)
                            \/ /\ ~Raises(key)
                               /\ pbkdf2_hmac(key.returns, u.salt)
                                     # u.password_hash

C1_Step ==
    \A w \in Workers :
        ( /\ Begins(w)
          /\ Configured
          /\ Received(w).kind = "login"
          /\ LoginFailureCase(Received(w)) )
        => /\ last'.worker = w
           /\ last'.resp = InvalidCredentials
           /\ users' = users

\* C1: with the store configured, a login in any of the three failure cases
\* (unknown email, record without hash or salt, hash mismatch) completes
\* with the one response 401 "Invalid credentials" and leaves the store
\* untouched.  Every failed login of a run has the same response: the
\* store handle never changes, and a failed login is answered with 401
\* "Invalid credentials" when the store is configured.
C1_UniformLoginFailure ==
    /\ [][C1_Step]_vars
    /\ [][db' = db]_vars
    /\ []((Configured /\ last.payload.kind = "login" /\ last.resp.status # 200)
            => last.resp = InvalidCredentials)

\* ------------------------------------------------------------------------
\* C2
\* ------------------------------------------------------------------------

C2_Step ==
    \A w \in Workers :
        ( /\ Begins(w)
          /\ Received(w).kind = "signup"
          /\ Configured
          /\ Holders(Received(w).email) # {} )
        => /\ last'.worker = w
           /\ last'.resp = DuplicateEmail
           /\ users' = users

C2_OnePerEmail ==
    \A i, j \in DOMAIN users : users[i].email = users[j].email => i = j

\* C2: when requests run one after another, a signup whose lower-cased
\* email is the email of a persisted user fails with 400 "Email already
\* registered" whatever its name and password, inserts nothing and changes
\* no record; no two records hold the same email.
C2_SequentialDuplicateRejected ==
    /\ [][C2_Step]_vars
    /\ []C2_OnePerEmail

\* A signup was just rejected as duplicate although its name and password
\* differ from those of the registered holder of the email.
C2_Witness ==
    /\ last.payload.kind = "signup"
    /\ last.resp = DuplicateEmail
    /\ Holders(last.payload.email) # {}
    /\ LET r == registered[FirstHolder(last.payload.email)]
       IN  /\ r.kind = "signup"
           /\ r.name # last.payload.name
           /\ r.password # last.payload.password

\* ------------------------------------------------------------------------
\* C3
\* ------------------------------------------------------------------------

C3_InsertStep ==
    \A w \in Workers :
        (pc[w] = "signup_insert" /\ pc'[w] # "signup_insert")
        => /\ pc'[w] = "signup_push"
           /\ Len(users') = Len(users) + 1
           /\ \A i \in DOMAIN users : users'[i] = users[i]
           /\ users'[Len(users')].email = lower(payload[w].email)
           /\ ObjectId(local'[w].user_id) = Len(users')

C3_PushStep ==
    \A w \in Workers :
        (pc[w] = "signup_push" /\ pc'[w] # "signup_push")
        => /\ last'.worker = w
           /\ last'.resp.status = 200
           /\ LET i == ObjectId(local[w].user_id)
              IN  /\ users'[i].tokens = Append(users[i].tokens, last'.resp.token)
                  /\ \A j \in DOMAIN users : j # i => users'[j] = users[j]

\* C3: the duplicate check and the insert are not atomic: a signup that has
\* passed the check inserts its own new record whatever the store holds by
\* then (also a record with the same email inserted meanwhile), and then
\* returns 200 with a token attached to the record it inserted.
C3_CheckThenInsertNotAtomic ==
    /\ [][C3_InsertStep]_vars
    /\ [][C3_PushStep]_vars

\* Two records with the same email, each created by a signup that returned
\* a token.
C3_Witness ==
    \E i, j \in DOMAIN users :
        /\ i # j
        /\ users[i].email = users[j].email
        /\ registered[i].kind = "signup" /\ registered[j].kind = "signup"
        /\ Len(issued[i]) = 1 /\ users[i].tokens = issued[i]
        /\ Len(issued[j]) = 1 /\ users[j].tokens = issued[j]
        /\ AllIdle

\* ------------------------------------------------------------------------
\* C4
\* ------------------------------------------------------------------------

C4_Step ==
    /\ \A i \in DOMAIN users :
          /\ i \in DOMAIN users'
          /\ IsPrefix(users[i].tokens, users'[i].tokens)
    /\ \A w \in Workers :
          (last'.worker = w /\ (Completes(w) \/ Begins(w)))
          => IF last'.resp.status = 200
             THEN \E i \in DOMAIN users :
                    /\ users'[i].tokens = Append(users[i].tokens, last'.resp.token)
                    /\ \A j \in DOMAIN users : j # i => users'[j] = users[j]
             ELSE users' = users

\* C4: each user's token list holds exactly the tokens returned by the
\* successful requests of that user (its signup and its successful logins),
\* one per request; a successful request appends exactly one token to one
\* user, a failed request changes nothing, and no step removes or reorders
\* tokens (the old list is a prefix of the new one).
C4_OneTokenPerSuccess ==
    /\ [][C4_Step]_vars
    /\ [](AllIdle => \A i \in DOMAIN users :
                        /\ Len(users[i].tokens) = Len(issued[i])
                        /\ ToSet(users[i].tokens) = ToSet(issued[i]))

\* A user with three tokens (signup and two logins), all requests completed.
C4_Witness ==
    /\ AllIdle
    /\ \E i \in DOMAIN users :
          /\ Len(users[i].tokens) = 3
          /\ Len(issued[i]) = 3

\* ------------------------------------------------------------------------
\* C5
\* ------------------------------------------------------------------------

\* C5: when requests run one after another, a login with the email and the
\* password of an earlier successful signup returns 200 with that user's
\* name and email and a token that differs from every token the user held
\* before (the signup token included); the token is appended last, so the
\* list is the signup token followed by the login tokens, of length 2 after
\* the first login.
C5_LoginAfterSignup ==
    \A i \in DOMAIN users :
        ( /\ last.worker # 0
          /\ last.payload.kind = "login"
          /\ registered[i].kind = "signup"
          /\ issued[i] # <<>>
          /\ registered[i].email = last.payload.email
          /\ registered[i].password = last.payload.password )
        => /\ last.resp.status = 200
           /\ last.resp.name = registered[i].name
           /\ last.resp.email = users[i].email
           /\ users[i].tokens = issued[i]
           /\ Len(users[i].tokens) >= 2
           /\ users[i].tokens[Len(users[i].tokens)] = last.resp.token
           /\ \A k \in 1 .. (Len(users[i].tokens) - 1) :
                 users[i].tokens[k] # last.resp.token
           /\ (started = 2 => Len(users[i].tokens) = 2)

\* The first login after a signup has just succeeded: the list is the
\* signup token followed by the login token.
C5_Witness ==
    /\ last.payload.kind = "login"
    /\ last.resp.status = 200
    /\ started = 2
    /\ \E i \in DOMAIN users :
          /\ registered[i].kind = "signup"
          /\ registered[i].password = last.payload.password
          /\ Len(users[i].tokens) = 2
          /\ users[i].tokens[2] = last.resp.token
          /\ users[i].tokens[1] # users[i].tokens[2]

\* ------------------------------------------------------------------------
\* C6
\* ------------------------------------------------------------------------

C6_State ==
    /\ \A i \in DOMAIN users :
          registered[i].kind = "signup"
          => /\ IsLowerCase(users[i].email)
             /\ SameModuloCase(users[i].email, registered[i].email)
    /\ \A i \in DOMAIN users :
          ( /\ last.worker # 0
            /\ last.payload.kind = "login"
            /\ registered[i].kind = "signup"
            /\ issued[i] # <<>>
            /\ SameModuloCase(registered[i].email, last.payload.email)
            /\ registered[i].password = last.payload.password )
          => last.resp.status = 200 /\ last.resp.email = users[i].email

C6_Step ==
    \A w \in Workers :
        ( /\ Begins(w)
          /\ Received(w).kind = "signup"
          /\ \E i \in DOMAIN users :
                /\ registered[i].kind = "signup"
                /\ SameModuloCase(registered[i].email, Received(w).email) )
        => last'.worker = w /\ last'.resp = DuplicateEmail

\* C6: email matching ignores letter case (requests one after another):
\* every record created by signup stores a lower-case spelling of the
\* address it was registered with; a login under any spelling that differs
\* from the registered one only in letter case succeeds with the right
\* password; a signup under any such spelling fails with 400 "Email
\* already registered".
C6_CaseInsensitiveEmail ==
    /\ []C6_State
    /\ [][C6_Step]_vars

\* ------------------------------------------------------------------------
\* C7
\* ------------------------------------------------------------------------

C7_Step ==
    \A i \in DOMAIN users :
        /\ i \in DOMAIN users'
        /\ users'[i]._id = users[i]._id
        /\ users'[i].name = users[i].name
        /\ users'[i].email = users[i].email
        /\ users'[i].password_hash = users[i].password_hash
        /\ users'[i].salt = users[i].salt
        /\ users'[i].is_active = users[i].is_active

C7_State ==
    \A i \in DOMAIN users :
        registered[i].kind = "signup"
        => /\ users[i].salt # None /\ users[i].salt # <<>>
           /\ users[i].password_hash
                 = pbkdf2_hmac(encode(registered[i].password).returns,
                               users[i].salt)
           /\ users[i].name = registered[i].name
           /\ users[i].is_active = TRUE
           /\ \A j \in DOMAIN users :
                 (registered[j].kind = "signup" /\ j # i)
                 => users[j].salt # users[i].salt

\* C7: no step deletes a record or changes the _id, name, email,
\* password_hash, salt or is_active of an existing record: the only change
\* to an existing record is to its token list.  Hence every record made by
\* signup keeps the salt drawn for it (no two records share one) and its
\* password_hash is the derivation of the registration password with that
\* salt.
C7_RecordImmutableButTokens ==
    /\ [][C7_Step]_vars
    /\ []C7_State

\* Two records exist, one of them has been logged into after its signup
\* (two tokens), and a later request has failed.
C7_Witness ==
    /\ Len(users) >= 2
    /\ \E i \in DOMAIN users :
          registered[i].kind = "signup" /\ Len(users[i].tokens) = 2
    /\ last.worker # 0

\* ------------------------------------------------------------------------
\* C8
\* ------------------------------------------------------------------------

\* C8: however logins interleave at store-call granularity, no appended
\* token is lost: every token returned in a 200 response of a user is in
\* that user's list, every token a login in flight has read is still
\* there, the list has no duplicates and as many entries as tokens
\* returned; no token belongs to two users.
C8_ConcurrentLoginsKeepTokens ==
    /\ \A i \in DOMAIN users :
          /\ ToSet(issued[i]) \subseteq ToSet(users[i].tokens)
          /\ Len(users[i].tokens) = Len(issued[i])
          /\ NoDuplicates(users[i].tokens)
          /\ \A j \in DOMAIN users :
                i # j => ToSet(users[i].tokens) \cap ToSet(users[j].tokens) = {}
    /\ \A w \in Workers :
          pc[w] = "login_push"
          => ToSet(local[w].user.tokens)
                \subseteq ToSet(users[local[w].user._id].tokens)

\* Two logins of one user overlapped: both tokens are in the list, and the
\* token drawn first was appended last.
C8_Witness ==
    /\ AllIdle
    /\ \E i \in DOMAIN users :
          /\ Len(users[i].tokens) = 3
          /\ users[i].tokens[2][2] > users[i].tokens[3][2]
          /\ ToSet(issued[i]) = ToSet(users[i].tokens)

\* ------------------------------------------------------------------------
\* C9
\* ------------------------------------------------------------------------

\* C9: a signup with an empty password is rejected: it never returns a
\* token and no persisted user was registered with the empty password.
C9_EmptyPasswordRejected ==
    /\ \A i \in DOMAIN users :
          registered[i].kind = "signup"
          => registered[i].password # Password_empty
    /\ (last.payload.kind = "signup" /\ last.payload.password = Password_empty)
          => last.resp.status # 200

\* ------------------------------------------------------------------------
\* C10
\* ------------------------------------------------------------------------

\* C10: when the store handle is absent, every signup and login completes
\* at once with 500 "Database not configured": no store call is made, no
\* handler gets past its guard, no record exists and no token is drawn.
C10_StoreUnavailable ==
    db = "None"
    => /\ storeCalls = 0
       /\ entropy = 0
       /\ users = <<>>
       /\ AllIdle
       /\ last.worker # 0 => last.resp = StoreUnavailable

\* Without a store, the third request, a login, has just been answered.
C10_Witness ==
    /\ db = "None"
    /\ started = 3
    /\ last.payload.kind = "login"
    /\ last.resp = StoreUnavailable

=============================================================================
